---- MODULE Spec2Model ----
(***************************************************************************)
(* A model of Lib/sandbox/numexpr/expressions.py: the expression nodes and *)
(* their operator overloads, numexpr() (canonicalisation, register         *)
(* assignment, temporary reuse, emission) and evaluate() with its cache.   *)
(*                                                                         *)
(* Numbers are exact rationals <<n, d>> in lowest terms with d > 0; they   *)
(* stand for the Python floats of the program (rounding is not modelled).  *)
(* <<1, 0>> stands for a non-finite result of the execution engine and     *)
(* <<0, 0>> for the unknown content of a register nobody has written.      *)
(***************************************************************************)
EXTENDS Integers, Sequences, FiniteSets, TLC

VARIABLES
    pc,         \* where the caller is: "start", "built", "compiled", "raised", "ran"
    src,        \* the Python expression the caller wrote (text, or node composition)
    ex,         \* the value that expression evaluated to (a node, a number)
    order,      \* the input_order argument handed to numexpr
    prog,       \* what numexpr returned
    err,        \* the exception that ended the call, "none" if none
    out,        \* the content of register 0 after the program ran
    bind,       \* the values bound to the names when the program ran
    cache,      \* _numexpr_cache: the set of <<text, Program>> items of the dict
    ncompiled,  \* per text, how many times numexpr ran for it
    ncalls,     \* per input of evaluate, the calls made with it
    tpc,        \* per thread, its position in evaluate
    tprog,      \* per thread, its local compiled_ex
    tdone       \* per thread, the Program its call ended with

vars == <<pc, src, ex, order, prog, err, out, bind,
          cache, ncompiled, ncalls, tpc, tprog, tdone>>

compilerVars == <<pc, src, ex, order, prog, err, out, bind>>
cacheVars == <<cache, ncompiled, ncalls>>
threadVars == <<tpc, tprog, tdone>>

(***************************************************************************)
(* Bounds of the model.                                                    *)
(***************************************************************************)
MaxOps == 2         \* operators in an expression of the full alphabet
MaxAllocOps == 3    \* operators in an expression of the allocator's alphabet
MaxCalls == 4       \* evaluate calls of the single caller
NThreads == 2       \* concurrent evaluate calls

(***************************************************************************)
(* Rational arithmetic.                                                    *)
(***************************************************************************)
RECURSIVE Gcd(_, _)
Gcd(a, b) == IF b = 0 THEN a ELSE Gcd(b, a % b)

Abs(x) == IF x < 0 THEN -x ELSE x

Q(n, d) ==
    LET g == Gcd(Abs(n), Abs(d))
        s == IF d < 0 THEN -1 ELSE 1
    IN  <<(s * n) \div g, (s * d) \div g>>

NonFinite == <<1, 0>>
Unwritten == <<0, 0>>
IsNumber(x) == x[2] # 0

QNeg(x) == <<-x[1], x[2]>>

\* operator.add, operator.sub, operator.mul, operator.div on nonzero divisors
QOp(op, x, y) ==
    CASE op = "add" -> Q(x[1] * y[2] + y[1] * x[2], x[2] * y[2])
      [] op = "sub" -> Q(x[1] * y[2] - y[1] * x[2], x[2] * y[2])
      [] op = "mul" -> Q(x[1] * y[1], x[2] * y[2])
      [] op = "div" -> Q(x[1] * y[2], x[2] * y[1])

\* Python raises ZeroDivisionError on a zero divisor, for ints and floats alike
HostRaises(op, x, y) == op = "div" /\ y[1] = 0

(***************************************************************************)
(* Values of the Python evaluation.                                        *)
(***************************************************************************)
Num(v) == [k |-> "num", v |-> v]
Raise(exc) == [k |-> "raise", exc |-> exc]

VariableNode(name) == [k |-> "var", name |-> name]

ConstantNode(v) == [k |-> "const", v |-> v]

IsNode(x) == x.k \in {"var", "const", "op"}

\* OpNode.__init__: the opcode and operands the new node keeps
OpNode(opcode, args) ==
    IF Len(args) = 2
    THEN IF args[1].k = "const"
         THEN [k |-> "op", opcode |-> opcode \o "_c", args |-> args]
         ELSE IF args[2].k = "const"
         THEN CASE opcode = "sub" ->
                     [k |-> "op", opcode |-> "add_c",
                      args |-> <<args[1], ConstantNode(QNeg(args[2].v))>>]
                [] opcode = "div" ->
                     IF args[2].v[1] = 0
                     THEN Raise("ZeroDivisionError")
                     ELSE [k |-> "op", opcode |-> "mul_c",
                           args |-> <<args[1],
                                      ConstantNode(QOp("div", <<1, 1>>, args[2].v))>>]
                [] OTHER ->
                     [k |-> "op", opcode |-> opcode \o "_c", args |-> args]
         ELSE [k |-> "op", opcode |-> opcode, args |-> args]
    ELSE [k |-> "op", opcode |-> opcode, args |-> args]

\* binop(opname): the operation installed as __add__/__radd__, __sub__/__rsub__, ...
binop(opname, self, other) ==
    OpNode(opname, <<self, IF other.k = "num" THEN ConstantNode(other.v) ELSE other>>)

\* optimize_constants(name, op): ConstantNode.__add__, __sub__, __mul__, __div__
optimize_constants(opname, self, other) ==
    IF other.k = "const"
    THEN IF HostRaises(opname, self.v, other.v)
         THEN Raise("ZeroDivisionError")
         ELSE ConstantNode(QOp(opname, self.v, other.v))
    ELSE binop(opname, self, other)

\* ExpressionNode.__neg__, ConstantNode.__neg__, and - on a number
Negate(x) ==
    CASE x.k = "num" -> Num(QNeg(x.v))
      [] x.k = "const" -> ConstantNode(QNeg(x.v))
      [] OTHER -> OpNode("neg", <<x>>)

\* Python's dispatch of `l op r`: the left operand's method, or, for a number on
\* the left, the right operand's reflected method
PyBinary(opname, l, r) ==
    CASE l.k = "num" /\ r.k = "num" ->
            IF HostRaises(opname, l.v, r.v)
            THEN Raise("ZeroDivisionError")
            ELSE Num(QOp(opname, l.v, r.v))
      [] l.k = "num" /\ r.k # "num" -> binop(opname, r, l)
      [] l.k = "const" -> optimize_constants(opname, l, r)
      [] OTHER -> binop(opname, l, r)

(***************************************************************************)
(* The expressions a caller writes.  lit: a numeric literal; id: a name    *)
(* (E.<name> in node composition); cnode: ConstantNode(v) written out;     *)
(* bin, neg: the Python operators.  Text has no cnode.                     *)
(***************************************************************************)
Lit(v) == [k |-> "lit", v |-> v]
Id(name) == [k |-> "id", name |-> name]
CNode(v) == [k |-> "cnode", v |-> v]
Bin(op, l, r) == [k |-> "bin", op |-> op, l |-> l, r |-> r]
Neg(e) == [k |-> "neg", e |-> e]

RECURSIVE IsText(_)
IsText(s) ==
    CASE s.k = "cnode" -> FALSE
      [] s.k = "bin" -> IsText(s.l) /\ IsText(s.r)
      [] s.k = "neg" -> IsText(s.e)
      [] OTHER -> TRUE

\* Expression.__getattr__: E.<name>
Expression_getattr(name) == VariableNode(name)

\* The Python evaluation of the expression (eval(c, names) for text): operands
\* left to right, an exception ending it
RECURSIVE Build(_)
Build(s) ==
    CASE s.k = "lit" -> Num(s.v)
      [] s.k = "id" -> Expression_getattr(s.name)
      [] s.k = "cnode" -> ConstantNode(s.v)
      [] s.k = "neg" ->
            LET e == Build(s.e)
            IN  IF e.k = "raise" THEN e ELSE Negate(e)
      [] s.k = "bin" ->
            LET l == Build(s.l)
            IN  IF l.k = "raise" THEN l
                ELSE LET r == Build(s.r)
                     IN  IF r.k = "raise" THEN r ELSE PyBinary(s.op, l, r)

string2expression(s) == Build(s)

(***************************************************************************)
(* Walking a tree.  A node is named by its path from the root (the operand *)
(* positions taken): two nodes at different paths are different objects.   *)
(***************************************************************************)
RECURSIVE NodeAt(_, _)
NodeAt(n, p) == IF p = <<>> THEN n ELSE NodeAt(n.args[Head(p)], Tail(p))

\* ExpressionNode._walk / OpNode._walk: the operands' walks, then the node
RECURSIVE Walk(_, _)
Walk(n, p) ==
    IF n.k = "op"
    THEN (IF Len(n.args) = 1
          THEN Walk(n.args[1], Append(p, 1))
          ELSE Walk(n.args[1], Append(p, 1)) \o Walk(n.args[2], Append(p, 2)))
         \o <<p>>
    ELSE <<p>>

\* ExpressionNode.walk(instances_of=...)
WalkInstances(root, kind) ==
    SelectSeq(Walk(root, <<>>), LAMBDA p : NodeAt(root, p).k = kind)

Range(f) == {f[i] : i \in DOMAIN f}

Perms(S) ==
    {f \in [1..Cardinality(S) -> S] : \A i, j \in DOMAIN f : f[i] = f[j] => i = j}

IndexOf(seq, x) == CHOOSE i \in DOMAIN seq : seq[i] = x

\* the names in ascending order, as list.sort() leaves them
AllNames == <<"a", "b", "c">>
Sorted(S) == SelectSeq(AllNames, LAMBDA n : n \in S)

(***************************************************************************)
(* numexpr(ex, input_order).                                               *)
(***************************************************************************)
NoOrder == [given |-> FALSE, names |-> <<>>]
Given(names) == [given |-> TRUE, names |-> names]
Str(s) == [k |-> "str", s |-> s]

\* lines 62-65: a string is evaluated, anything but an OpNode is wrapped in copy
Wrap(x) ==
    LET e == IF x.k = "str" THEN string2expression(x.s) ELSE x
    IN  IF e.k \in {"raise", "op"} THEN e ELSE OpNode("copy", <<e>>)

\* ex.walk() reaches a.walk() on an operand that is a bare number (an int or a
\* float has no walk): the wrapped result of an all-literal text
WalkFails(e) == e.k = "op" /\ \E i \in DOMAIN e.args : e.args[i].k = "num"

\* lines 68-75: name_map's keys
NameMap(e) == {NodeAt(e, p).name : p \in Range(WalkInstances(e, "var"))}

\* lines 92-98: const_map's keys
ConstMap(e) == {NodeAt(e, p).v : p \in Range(WalkInstances(e, "const"))}

\* `if input_order:` is false for None and for an empty sequence
Truthy(input_order) == input_order.given /\ Len(input_order.names) > 0

\* lines 77-85: the check that raises ValueError
OrderMismatch(e, input_order) ==
    /\ Truthy(input_order)
    /\ \/ \E name \in Range(input_order.names) : name \notin NameMap(e)
       \/ \E name \in NameMap(e) : name \notin Range(input_order.names)

\* lines 77-88: the order of the inputs
InputOrder(e, input_order) ==
    IF Truthy(input_order) THEN input_order.names ELSE Sorted(NameMap(e))

\* A Register object.  obj tells the objects apart: <<0, i>> is made by line 110
\* in iteration i, <<1>> \o p by line 113 for the OpNode at p, <<2, i>> by line 118.
NoName == "None"
NoneValue == <<0, 0>>
Register(obj, n, name, temporary, constant, value) ==
    [obj |-> obj, n |-> n, name |-> name, temporary |-> temporary,
     constant |-> constant, value |-> value]

\* lines 108-110: registers[name_map[name]] after the loop (a later iteration
\* with the same name replaces the entry)
InputRegister(input, name) ==
    LET i == CHOOSE i \in DOMAIN input :
                 input[i] = name /\ \A j \in DOMAIN input : input[j] = name => j <= i
    IN  Register(<<0, i>>, i, name, FALSE, FALSE, NoneValue)

\* lines 116-119
ConstantRegister(corder, value) ==
    LET i == IndexOf(corder, value)
    IN  Register(<<2, i>>, i - 1, NoName, FALSE, TRUE, value)

\* the reuse pass taking the last operand's temporary instead of the first's
RECURSIVE ReuseLastOperand(_, _)
ReuseLastOperand(e, p) ==
    LET a == NodeAt(e, p)
        temps == {i \in DOMAIN a.args : a.args[i].k = "op"}
    IN  IF temps = {} THEN <<1>> \o p
        ELSE ReuseLastOperand(e, Append(p, CHOOSE i \in temps : \A j \in temps : i >= j))

\* lines 112-113 and 121-127: the temporary an OpNode ends with.  Every OpNode
\* starts with its own; in walk order each takes over the temporary of its first
\* operand that has one (the operands' own take-overs are done by then).
RECURSIVE ReuseObj(_, _)
ReuseObj(e, p) ==
    LET a == NodeAt(e, p)
        temps == {i \in DOMAIN a.args : a.args[i].k = "op"}
    IN  IF temps = {} THEN <<1>> \o p
        ELSE ReuseObj(e, Append(p, CHOOSE i \in temps : \A j \in temps : i <= j))

\* lines 129-131
OutputObj(e) == ReuseObj(e, <<>>)

\* registers[node_map.get(a, a)] for the node at p, before reg() numbers it
\* (n = -1 stands for None)
RegisterOf(e, input, corder, p) ==
    LET a == NodeAt(e, p)
    IN  CASE a.k = "var" -> InputRegister(input, a.name)
          [] a.k = "const" -> ConstantRegister(corder, a.v)
          [] a.k = "op" ->
                IF ReuseObj(e, p) = OutputObj(e)
                THEN Register(ReuseObj(e, p), 0, NoName, FALSE, FALSE, NoneValue)
                ELSE Register(ReuseObj(e, p), -1, NoName, TRUE, FALSE, NoneValue)

\* lines 151-156: the reg() calls in the order they are made
RECURSIVE RegCallsFrom(_, _, _)
RegCallsFrom(e, ops, i) ==
    IF i > Len(ops) THEN <<>>
    ELSE <<ops[i]>>
         \o [j \in DOMAIN NodeAt(e, ops[i]).args |-> Append(ops[i], j)]
         \o RegCallsFrom(e, ops, i + 1)

RegCalls(e) == RegCallsFrom(e, WalkInstances(e, "op"), 1)

\* lines 133-140: seen_temps, in the order reg() adds to it
RECURSIVE SeenFrom(_, _, _, _, _, _)
SeenFrom(e, input, corder, calls, i, seen) ==
    IF i > Len(calls) THEN seen
    ELSE LET m == RegisterOf(e, input, corder, calls[i])
         IN  SeenFrom(e, input, corder, calls, i + 1,
                      IF m.obj \notin Range(seen) /\ m.temporary
                      THEN Append(seen, m.obj) ELSE seen)

SeenTemps(e, input, corder) == SeenFrom(e, input, corder, RegCalls(e), 1, <<>>)

\* reg(a): the register with the number it ends with
reg(e, input, corder, seen, p) ==
    LET m == RegisterOf(e, input, corder, p)
    IN  IF m.temporary
        THEN [m EXCEPT !.n = Len(input) + IndexOf(seen, m.obj)]
        ELSE m

NoneRegister == Register(<<>>, -1, NoName, FALSE, FALSE, NoneValue)

\* lines 150-156: the tuple appended for the OpNode at p
Instruction(e, input, corder, seen, p) ==
    LET a == NodeAt(e, p)
    IN  [opcode |-> a.opcode,
         store |-> reg(e, input, corder, seen, p),
         a1 |-> reg(e, input, corder, seen, Append(p, 1)),
         a2 |-> IF Len(a.args) = 1 THEN NoneRegister
                ELSE reg(e, input, corder, seen, Append(p, 2))]

\* to_string: the four bytes of an instruction (the opcode byte is the engine's
\* number for the name, kept here as the name)
to_string(t) ==
    <<t.opcode, t.store.n, t.a1.n, IF t.a2 = NoneRegister THEN 0 ELSE t.a2.n>>

NoProgram ==
    [ok |-> FALSE, exc |-> "none", program |-> <<>>, prog_str |-> <<>>,
     n_inputs |-> 0, n_temps |-> 0, constants |-> <<>>, input_names |-> <<>>, by |-> 0]

Failure(exc) == [NoProgram EXCEPT !.exc = exc]

\* lines 67-166 for an OpNode e whose walk succeeds
Compile(e, input_order, corder) ==
    IF OrderMismatch(e, input_order) THEN Failure("ValueError")
    ELSE LET input == InputOrder(e, input_order)
             ops == WalkInstances(e, "op")
             seen == SeenTemps(e, input, corder)
             program == [i \in DOMAIN ops |->
                            Instruction(e, input, corder, seen, ops[i])]
         IN  [ok |-> TRUE, exc |-> "none",
              program |-> program,
              prog_str |-> [i \in DOMAIN program |-> to_string(program[i])],
              n_inputs |-> Len(input),
              n_temps |-> Len(seen),
              constants |-> corder,
              input_names |-> input,
              by |-> 0]

\* numexpr(ex, input_order); corder is the order in which Python enumerates the
\* keys of const_map (line 116)
numexpr(x, input_order, corder) ==
    LET e == Wrap(x)
    IN  IF e.k = "raise" THEN Failure(e.exc)
        ELSE IF WalkFails(e) THEN Failure("AttributeError")
        ELSE Compile(e, input_order, corder)

\* the orders in which the keys of const_map can be enumerated
ConstOrders(x) ==
    LET e == Wrap(x)
    IN  IF e.k = "raise" \/ WalkFails(e) THEN {<<>>} ELSE Perms(ConstMap(e))

(***************************************************************************)
(* The execution engine (interpreter.NumExpr), as the instruction format   *)
(* documents it: dest := opcode(operand1, operand2), a _c opcode reading   *)
(* its last operand from the constant file.                                *)
(***************************************************************************)
IsC(opcode) == opcode \in {"add_c", "sub_c", "mul_c", "div_c", "neg_c", "copy_c"}

BaseOp(opcode) ==
    CASE opcode \in {"add", "add_c"} -> "add"
      [] opcode \in {"sub", "sub_c"} -> "sub"
      [] opcode \in {"mul", "mul_c"} -> "mul"
      [] opcode \in {"div", "div_c"} -> "div"
      [] opcode \in {"neg", "neg_c"} -> "neg"
      [] OTHER -> "copy"

Arith(op, x, y) ==
    CASE x = Unwritten \/ y = Unwritten -> Unwritten
      [] x = NonFinite \/ y = NonFinite -> NonFinite
      [] op = "div" /\ y[1] = 0 -> NonFinite
      [] OTHER -> QOp(op, x, y)

ArithNeg(x) == IF IsNumber(x) THEN QNeg(x) ELSE x

ReadVar(file, i) == IF i \in DOMAIN file THEN file[i] ELSE Unwritten
ReadConst(constants, i) ==
    IF i + 1 \in DOMAIN constants THEN constants[i + 1] ELSE Unwritten

Execute(file, constants, b) ==
    LET op == BaseOp(b[1])
        x == ReadVar(file, b[3])
        y == IF IsC(b[1]) THEN ReadConst(constants, b[4]) ELSE ReadVar(file, b[4])
        r == CASE op = "copy" -> x
               [] op = "neg" -> ArithNeg(x)
               [] OTHER -> Arith(op, x, y)
    IN  IF b[2] \in DOMAIN file THEN [file EXCEPT ![b[2]] = r] ELSE file

RECURSIVE ExecuteFrom(_, _, _, _)
ExecuteFrom(file, constants, prog_str, i) ==
    IF i > Len(prog_str) THEN file
    ELSE ExecuteFrom(Execute(file, constants, prog_str[i]), constants, prog_str, i + 1)

\* the call of the compiled object: register 0 after the last instruction
RunProgram(p, arguments) ==
    LET file0 == [i \in 0..(p.n_inputs + p.n_temps) |->
                     IF i \in 1..p.n_inputs THEN arguments[i] ELSE Unwritten]
    IN  ExecuteFrom(file0, p.constants, p.prog_str, 1)[0]

(***************************************************************************)
(* The inputs of the model.                                                *)
(***************************************************************************)
RECURSIVE Trees(_, _, _)
Trees(n, leaves, binops) ==
    IF n = 0 THEN leaves
    ELSE {Neg(e) : e \in Trees(n - 1, leaves, binops)}
         \cup UNION {{Bin(op, l, r) : op \in binops,
                                      l \in Trees(i, leaves, binops),
                                      r \in Trees(n - 1 - i, leaves, binops)}
                     : i \in 0..(n - 1)}

Leaves ==
    {Lit(<<0, 1>>), Lit(<<2, 1>>), Id("a"), Id("b"), CNode(<<0, 1>>), CNode(<<2, 1>>)}
BinOps == {"add", "sub", "mul", "div"}
\* the expressions of at most n operators
Sources(n, leaves, binops) == UNION {Trees(i, leaves, binops) : i \in 0..n}

AllocLeaves == {Lit(<<2, 1>>), Id("a"), Id("b")}
AllocBinOps == {"mul"}

InputOrders ==
    {NoOrder, Given(<<>>), Given(<<"a">>), Given(<<"b">>),
     Given(<<"a", "b">>), Given(<<"b", "a">>), Given(<<"a", "a">>)}

Bindings == [{"a", "b"} -> {<<1, 1>>, <<3, 1>>}]
NoBinding == [n \in {"a", "b"} |-> <<0, 1>>]

NoExpression == [k |-> "none"]

(***************************************************************************)
(* The compiler's callers.                                                 *)
(***************************************************************************)
CompilerStart(sources) ==
    /\ pc = "start"
    /\ src \in sources
    /\ ex = NoExpression
    /\ order = NoOrder
    /\ prog = NoProgram
    /\ err = "none"
    /\ out = Unwritten
    /\ bind = NoBinding

\* The caller composes nodes with the overloaded operators (an expression that
\* names ConstantNode cannot be given as text).
Construct ==
    /\ pc = "start"
    /\ ~IsText(src)
    /\ LET e == Build(src)
       IN  IF e.k = "raise"
           THEN pc' = "raised" /\ err' = e.exc /\ ex' = ex
           ELSE pc' = "built" /\ err' = err /\ ex' = e
    /\ UNCHANGED <<src, order, prog, out, bind, cacheVars, threadVars>>

\* numexpr(ex, input_order) on text or on the nodes the caller composed
Numexpr(input_order) ==
    /\ \/ pc = "start" /\ IsText(src)
       \/ pc = "built"
    /\ LET x == IF pc = "start" THEN Str(src) ELSE ex
       IN  \E corder \in ConstOrders(x) :
               LET r == numexpr(x, input_order, corder)
               IN  /\ order' = input_order
                   /\ ex' = IF Wrap(x).k = "raise" THEN ex ELSE Wrap(x)
                   /\ IF r.ok
                      THEN pc' = "compiled" /\ prog' = r /\ err' = err
                      ELSE pc' = "raised" /\ prog' = prog /\ err' = r.exc
    /\ UNCHANGED <<src, out, bind, cacheVars, threadVars>>

\* the names are looked up and the compiled object is called with the values
Arguments(p, b) == [i \in DOMAIN p.input_names |-> b[p.input_names[i]]]

Run(b) ==
    /\ pc = "compiled"
    /\ pc' = "ran"
    /\ bind' = b
    /\ out' = RunProgram(prog, Arguments(prog, b))
    /\ UNCHANGED <<src, ex, order, prog, err, cacheVars, threadVars>>

CacheTexts ==
    {Bin("add", Bin("mul", Lit(<<2, 1>>), Id("a")), Bin("mul", Lit(<<3, 1>>), Id("b"))),
     Bin("sub", Id("a"), Lit(<<1, 1>>)),
     Bin("div", Id("a"), Lit(<<0, 1>>)),
     Bin("add", Lit(<<2, 1>>), Lit(<<3, 1>>)),
     Neg(Id("b"))}

Threads == 1..NThreads

RECURSIVE Sum(_, _)
Sum(f, S) == IF S = {} THEN 0 ELSE LET x == CHOOSE x \in S : TRUE
                                   IN  f[x] + Sum(f, S \ {x})

\* what evaluate is called with: the texts, and something that is no string
EvaluateInputs == {Str(t) : t \in CacheTexts} \cup {VariableNode("a")}

CacheStart ==
    /\ cache = {}
    /\ ncompiled = [t \in CacheTexts |-> 0]
    /\ ncalls = [x \in EvaluateInputs |-> 0]

ThreadsIdle ==
    /\ tpc = [t \in Threads |-> "idle"]
    /\ tprog = [t \in Threads |-> NoProgram]
    /\ tdone = [t \in Threads |-> NoProgram]

Init == CompilerStart(Sources(MaxOps, Leaves, BinOps)) /\ CacheStart /\ ThreadsIdle

Next ==
    \/ Construct
    \/ \E input_order \in InputOrders : Numexpr(input_order)
    \/ \E b \in Bindings : Run(b)

Spec == Init /\ [][Next]_vars

AllocInit ==
    CompilerStart(Sources(MaxAllocOps, AllocLeaves, AllocBinOps)) /\ CacheStart /\ ThreadsIdle

AllocNext == \E input_order \in InputOrders : Numexpr(input_order)

AllocSpec == AllocInit /\ [][AllocNext]_vars

(***************************************************************************)
(* evaluate(ex, local_dict, global_dict) and _numexpr_cache.               *)
(***************************************************************************)
\* the dict: at most one item per key
Has(d, key) == \E it \in d : it[1] = key
GetItem(d, key) == (CHOOSE it \in d : it[1] = key)[2]
SetItem(d, key, value) == {it \in d : it[1] # key} \cup {<<key, value>>}

\* the names visible to the caller (its locals over its globals)
CallerNames ==
    {("a" :> <<1, 1>>) @@ ("b" :> <<10, 1>>), ("a" :> <<1, 1>>)}

\* lines 191-198: the arguments are looked up and the compiled object is called
Call(p, names) ==
    IF \E i \in DOMAIN p.input_names : p.input_names[i] \notin DOMAIN names
    THEN pc' = "raised" /\ err' = "KeyError" /\ out' = Unwritten
    ELSE pc' = "ran" /\ err' = "none" /\ out' = RunProgram(p, Arguments(p, names))

\* a lookup that never finds the text
CacheNeverHit(x) == FALSE

\* lines 182-185: whether the lookup finds the text
CacheHit(x) == Has(cache, x.s)

Evaluate(x, names) ==
    /\ Sum(ncalls, EvaluateInputs) < MaxCalls
    /\ ncalls' = [ncalls EXCEPT ![x] = @ + 1]
    /\ bind' = names
    /\ IF x.k # "str"
       THEN /\ pc' = "raised" /\ err' = "ValueError" /\ out' = Unwritten
            /\ UNCHANGED <<src, prog, cache, ncompiled>>
       ELSE /\ src' = x.s
            /\ IF CacheHit(x)
               THEN /\ prog' = GetItem(cache, x.s)
                    /\ Call(GetItem(cache, x.s), names)
                    /\ UNCHANGED <<cache, ncompiled>>
               ELSE \E corder \in ConstOrders(x) :
                       LET r == numexpr(x, NoOrder, corder)
                       IN  /\ ncompiled' = [ncompiled EXCEPT ![x.s] = @ + 1]
                           /\ IF r.ok
                              THEN /\ cache' = SetItem(cache, x.s, r)
                                   /\ prog' = r
                                   /\ Call(r, names)
                              ELSE /\ cache' = cache
                                   /\ prog' = NoProgram
                                   /\ pc' = "raised" /\ err' = r.exc
                                   /\ out' = Unwritten
    /\ UNCHANGED <<ex, order, threadVars>>

CacheInit ==
    /\ pc = "start" /\ src = Lit(<<0, 1>>) /\ ex = NoExpression /\ order = NoOrder
    /\ prog = NoProgram /\ err = "none" /\ out = Unwritten /\ bind = NoBinding
    /\ CacheStart /\ ThreadsIdle

CacheNext == \E x \in EvaluateInputs, names \in CallerNames : Evaluate(x, names)

CacheSpec == CacheInit /\ [][CacheNext]_vars

(***************************************************************************)
(* Concurrent evaluate calls on one text.  A thread's steps are those      *)
(* between which Python can switch threads; the dict's lookup and store    *)
(* are single steps, everything else a thread does is local to it.         *)
(***************************************************************************)
ConcTexts ==
    {Bin("add", Bin("mul", Lit(<<2, 1>>), Id("a")), Bin("mul", Lit(<<3, 1>>), Id("b"))),
     Bin("sub", Id("a"), Lit(<<1, 1>>)),
     Neg(Id("b"))}

\* line 183: the lookup
TLookup(t) ==
    /\ tpc[t] = "idle"
    /\ IF Has(cache, src)
       THEN /\ tpc' = [tpc EXCEPT ![t] = "bind"]
            /\ tprog' = [tprog EXCEPT ![t] = GetItem(cache, src)]
       ELSE /\ tpc' = [tpc EXCEPT ![t] = "compile"]
            /\ tprog' = tprog
    /\ UNCHANGED <<compilerVars, cacheVars, tdone>>

\* line 185, numexpr up to line 150: the program list is still empty
TCompile(t) ==
    /\ tpc[t] = "compile"
    /\ \E corder \in ConstOrders(Str(src)) :
          LET r == numexpr(Str(src), NoOrder, corder)
          IN  IF r.ok
              THEN /\ tpc' = [tpc EXCEPT ![t] = "emit"]
                   /\ tprog' = [tprog EXCEPT
                                   ![t] = [r EXCEPT !.program = <<>>,
                                                    !.prog_str = <<>>, !.by = t]]
              ELSE /\ tpc' = [tpc EXCEPT ![t] = "raised"]
                   /\ tprog' = tprog
    /\ ncompiled' = [ncompiled EXCEPT ![src] = @ + 1]
    /\ UNCHANGED <<compilerVars, cache, ncalls, tdone>>

\* the program the thread is building, when finished
Target(t) == numexpr(Str(src), NoOrder, tprog[t].constants)

\* lines 151-156: one more instruction
TEmit(t) ==
    /\ tpc[t] = "emit"
    /\ Len(tprog[t].program) < Len(Target(t).program)
    /\ tprog' = [tprog EXCEPT ![t].program =
                    Append(@, Target(t).program[Len(@) + 1])]
    /\ UNCHANGED <<compilerVars, cacheVars, tpc, tdone>>

\* a store made while the program is still being emitted
StoredEarly(t) == tpc[t] = "emit"

\* when line 185 may store what the thread built: numexpr has returned
Returned(t) ==
    tpc[t] = "emit" /\ Len(tprog[t].program) = Len(Target(t).program)

\* lines 161-166 and the store of line 185
TStore(t) ==
    /\ Returned(t)
    /\ LET nex == [tprog[t] EXCEPT
                      !.prog_str = [i \in DOMAIN tprog[t].program |->
                                       to_string(tprog[t].program[i])]]
       IN  /\ cache' = SetItem(cache, src, nex)
           /\ tprog' = [tprog EXCEPT ![t] = nex]
    /\ tpc' = [tpc EXCEPT ![t] = "bind"]
    /\ UNCHANGED <<compilerVars, ncompiled, ncalls, tdone>>

\* lines 186-198: the call of the compiled object
TCall(t) ==
    /\ tpc[t] = "bind"
    /\ tpc' = [tpc EXCEPT ![t] = "done"]
    /\ tdone' = [tdone EXCEPT ![t] = tprog[t]]
    /\ UNCHANGED <<compilerVars, cacheVars, tprog>>

TStep(t) == TLookup(t) \/ TCompile(t) \/ TEmit(t) \/ TStore(t) \/ TCall(t)

ConcInit ==
    /\ pc = "start" /\ src \in ConcTexts /\ ex = NoExpression /\ order = NoOrder
    /\ prog = NoProgram /\ err = "none" /\ out = Unwritten /\ bind = NoBinding
    /\ CacheStart /\ ThreadsIdle

ConcNext == \E t \in Threads : TStep(t)

ConcSpec == ConcInit /\ [][ConcNext]_vars

(***************************************************************************)
(* The claims.                                                             *)
(***************************************************************************)
\* the arithmetic value of an expression under a binding of its names
RECURSIVE Value(_, _)
Value(s, b) ==
    CASE s.k \in {"lit", "cnode"} -> s.v
      [] s.k = "id" -> b[s.name]
      [] s.k = "neg" -> ArithNeg(Value(s.e, b))
      [] s.k = "bin" -> Arith(s.op, Value(s.l, b), Value(s.r, b))

Instructions == {prog.program[i] : i \in DOMAIN prog.program}

\* the registers an instruction names
Operands(t) == {t.a1} \cup (IF t.a2 = NoneRegister THEN {} ELSE {t.a2})
Registers == UNION {{t.store} \cup Operands(t) : t \in Instructions}

\* C1: for every text over the grammar and every binding of its names, the
\* emitted program, run under the documented instruction semantics, leaves the
\* arithmetic value of the expression in register 0, wherever a literal stands.
C1_ProgramComputesValue ==
    (pc = "ran" /\ IsText(src)) => out = Value(src, bind)

\* C2, as stated: no non-root Op node is given register 0, so only the last
\* emitted instruction has dest 0.
C2_OnlyRootHasDestZero ==
    pc = "compiled" =>
        \A i \in DOMAIN prog.program :
            i < Len(prog.program) => prog.program[i].store.n # 0

\* the root, its first Op operand, that node's first Op operand, and so on
RECURSIVE RootChain(_, _)
RootChain(e, p) ==
    LET a == NodeAt(e, p)
        opnds == {i \in DOMAIN a.args : a.args[i].k = "op"}
    IN  IF opnds = {} THEN {p}
        ELSE {p} \cup RootChain(e, Append(p, CHOOSE i \in opnds : \A j \in opnds : i <= j))

\* C2, amended: the last emitted instruction (the root's) has dest 0; a non-root
\* Op node has dest 0 exactly when it lies on the root's reuse chain (the root's
\* first Op operand, that node's first Op operand, and so on); every other Op
\* node's dest is a temporary index above n_inputs.
C2_DestZeroExactlyOnRootChain ==
    pc = "compiled" =>
        LET ops == WalkInstances(ex, "op")
        IN  /\ prog.program[Len(prog.program)].store.n = 0
            /\ \A i \in DOMAIN prog.program :
                  /\ prog.program[i].store.n = 0 <=> ops[i] \in RootChain(ex, <<>>)
                  /\ prog.program[i].store.n # 0 =>
                         /\ prog.program[i].store.n > prog.n_inputs
                         /\ ~prog.program[i].store.constant

\* C2's case: a program in which a non-root node writes register 0 and another
\* node writes a temporary
C2_Witness ==
    /\ pc = "compiled"
    /\ \E i, j \in DOMAIN prog.program :
          /\ i < Len(prog.program)
          /\ prog.program[i].store.n = 0
          /\ prog.program[j].store.n > prog.n_inputs

\* C3: an operand is a constant-file register exactly when it is the last
\* encoded operand of an instruction whose opcode carries the _c suffix.
C3_ConstantOperandOnlyLastOfC ==
    pc = "compiled" =>
        \A t \in Instructions :
            IF t.a2 = NoneRegister
            THEN t.a1.constant <=> IsC(t.opcode)
            ELSE /\ ~t.a1.constant
                 /\ t.a2.constant <=> IsC(t.opcode)

\* C4: with a caller-supplied input_order of any length (the empty one too),
\* numexpr fails when the order omits a used name or has an unused one, and
\* succeeds with input_names = input_order when it names exactly the used names.
C4_InputOrderChecked ==
    (/\ order.given
     /\ pc \in {"compiled", "raised"}
     /\ err \notin {"ZeroDivisionError", "AttributeError"}) =>
        IF Range(order.names) = NameMap(ex)
        THEN pc = "compiled" /\ prog.input_names = order.names
        ELSE pc = "raised" /\ err = "ValueError"

\* whether numexpr succeeds on the text
CompilesOk(t) ==
    \E corder \in ConstOrders(Str(t)) : numexpr(Str(t), NoOrder, corder).ok

\* C5: after any sequence of evaluate calls by one caller, the cache holds an
\* entry (one) for exactly the texts whose compilation has succeeded, the
\* compiler has run exactly once for each of them however often it was asked
\* for, a call that ran used the stored Program, and a call whose compilation
\* failed left no entry.
C5_CachedExactlyOnce ==
    /\ \A t \in CacheTexts :
          /\ Cardinality({it \in cache : it[1] = t}) <= 1
          /\ Has(cache, t) <=> (ncompiled[t] > 0 /\ CompilesOk(t))
          /\ Has(cache, t) => (ncompiled[t] = 1 /\ GetItem(cache, t).ok)
          /\ ncompiled[t] <= ncalls[Str(t)]
    /\ \A it \in cache : it[1] \in CacheTexts
    /\ pc = "ran" => (Has(cache, src) /\ prog = GetItem(cache, src))
    /\ (pc = "raised" /\ err \in {"ZeroDivisionError", "AttributeError"}) =>
           ~Has(cache, src)

\* C5's case: a text asked for again after it was cached, a text whose
\* compilation failed twice
C5_Witness ==
    /\ \E t \in CacheTexts :
          Has(cache, t) /\ ncalls[Str(t)] >= 2 /\ ncompiled[t] = 1
    /\ \E t \in CacheTexts : ~Has(cache, t) /\ ncompiled[t] >= 2

\* the instructions of the text's program: one per OpNode of its expression
Complete(p) ==
    /\ p.ok
    /\ Len(p.program) = Len(WalkInstances(Wrap(Str(src)), "op"))
    /\ Len(p.prog_str) = Len(p.program)

AllDone == \A t \in Threads : tpc[t] = "done"

\* the thread's next step is possible: the guard of one of its actions holds
CanStep(t) ==
    \/ tpc[t] \in {"idle", "compile", "bind"}
    \/ tpc[t] = "emit" /\ Len(tprog[t].program) < Len(Target(t).program)
    \/ Returned(t)

\* C6: under every interleaving of concurrent evaluate calls on one text that
\* is not cached yet, the cache maps the text to at most one Program at any
\* moment, every Program in the cache or read from it is completely emitted,
\* no call raises or gets stuck (a call that has not ended can take its next
\* step) and each ends with a complete Program; the text may be compiled more
\* than once, and when all calls have ended exactly one Program is published.
C6_RaceKeepsCacheWhole ==
    /\ Cardinality({it \in cache : it[1] = src}) <= 1
    /\ \A it \in cache : it[1] = src /\ Complete(it[2])
    /\ \A t \in Threads :
          /\ tpc[t] \in {"bind", "done"} => Complete(tprog[t])
          /\ tpc[t] = "done" => Complete(tdone[t])
          /\ tpc[t] # "raised"
          /\ tpc[t] = "done" \/ CanStep(t)
    /\ ncompiled[src] <= NThreads
    /\ AllDone => Cardinality(cache) = 1

\* C6's case: the text was compiled by more than one thread and all calls ended
C6_Witness == AllDone /\ ncompiled[src] >= 2 /\ Cardinality(cache) = 1

\* C7: folding and normalisation never raise: two constants combined by any of
\* + - * / (a zero divisor too) give a Constant; a non-constant left operand
\* and a constant right operand (zero too) give add_c with the negated
\* constant for sub and mul_c with the reciprocal for div.
C7_FoldingIsTotal ==
    (/\ pc # "start"
     /\ src.k = "bin"
     /\ Build(src.l).k # "raise"
     /\ Build(src.r).k # "raise") =>
        LET l == Build(src.l)
            r == Build(src.r)
        IN  /\ (l.k = "const" /\ r.k = "const") =>
                  /\ err # "ZeroDivisionError"
                  /\ pc = "built" => ex.k = "const"
            /\ (l.k \in {"var", "op"} /\ r.k \in {"const", "num"}
                    /\ src.op \in {"sub", "div"}) =>
                  /\ err # "ZeroDivisionError"
                  /\ ex.k = "op" =>
                        /\ ex.opcode = (IF src.op = "sub" THEN "add_c" ELSE "mul_c")
                        /\ ex.args[2].k = "const"
                        /\ src.op = "sub" => ex.args[2].v = QNeg(r.v)
                        /\ (src.op = "div" /\ r.v[1] # 0) =>
                               ex.args[2].v = QOp("div", <<1, 1>>, r.v)

\* the indices under which the program names a variable / a constant value
NameIndices(name) == {r.n : r \in {q \in Registers : q.name = name}}
ValueIndices(v) == {r.n : r \in {q \in Registers : q.constant /\ q.value = v}}

\* C8: n_inputs is the number of distinct names and every occurrence of a name
\* is encoded with one input register index; the constant pool has one entry
\* per distinct value and every occurrence of a value has one constant index.
C8_OneRegisterPerNameAndValue ==
    pc = "compiled" =>
        /\ prog.n_inputs = Cardinality(NameMap(ex))
        /\ \A name \in NameMap(ex) : Cardinality(NameIndices(name)) = 1
        /\ Len(prog.constants) = Cardinality(ConstMap(ex))
        /\ \A v \in ConstMap(ex) :
              /\ Cardinality(ValueIndices(v)) = 1
              /\ \A i \in ValueIndices(v) : prog.constants[i + 1] = v

\* C9: within a register file no two distinct register objects of the program
\* carry the same index: inputs occupy exactly 1..n_inputs, the temporaries
\* exactly n_inputs+1..n_inputs+n_temps, the constants 0..n_constants-1, and
\* index 0 of the variable file belongs to no input and no temporary.
C9_DistinctIndicesPerFile ==
    pc = "compiled" =>
        /\ \A r1, r2 \in Registers :
              (r1.constant = r2.constant /\ r1.obj # r2.obj) => r1.n # r2.n
        /\ {r.n : r \in {q \in Registers : q.name # NoName}} = 1..prog.n_inputs
        /\ {r.n : r \in {q \in Registers : q.temporary}}
               = (prog.n_inputs + 1)..(prog.n_inputs + prog.n_temps)
        /\ {r.n : r \in {q \in Registers : q.constant}} = 0..(Len(prog.constants) - 1)
        /\ \A r \in Registers : (r.name # NoName \/ r.temporary) => r.n # 0

\* C10: however a binary op is constructed, two constant operands are folded
\* into one Constant: no binary Op node of an AST has two Constant operands.
C10_NoOpOfTwoConstants ==
    (pc \in {"built", "compiled"} /\ ex.k = "op") =>
        \A p \in Range(WalkInstances(ex, "op")) :
            LET a == NodeAt(ex, p)
            IN  Len(a.args) = 2 => ~(a.args[1].k = "const" /\ a.args[2].k = "const")

====
